---- MODULE Spec2Model ----
(***************************************************************************)
(* Model of the ThreatConnect plugin (src/threat_connect/main.py): the     *)
(* checkpointed pull loop pull_data_from_threatconnect, the record         *)
(* classifier make_indicators and their helpers.                           *)
(*                                                                         *)
(* Optional values (a dictionary key that may be missing, a Python None)   *)
(* are sequences of length 0 or 1: None is <<>>, Some(v) is <<v>>.         *)
(* Strings the code takes apart (base URL, hash, text) are sequences of    *)
(* one-character strings.                                                  *)
(***************************************************************************)
EXTENDS Integers, Sequences, FiniteSets, TLC

None == <<>>
Some(v) == <<v>>
IsSome(o) == Len(o) = 1
Val(o) == o[1]

----------------------------------------------------------------------------
(* Module constants, main.py lines 88-91.  PAGE_LIMIT (100 in the source)  *)
(* and LIMIT (1000 in the source) are scaled down; MAX_RETRY is the        *)
(* source's value.                                                         *)
PAGE_LIMIT == 2
LIMIT == 1
MAX_RETRY == 3
TAG_NAME == "Netskope CE"

(* Bounds of the model. *)
MaxRuns == 3
MaxConfigChanges == 1
MaxPages == PAGE_LIMIT + 1

----------------------------------------------------------------------------
(* Character-level helpers for the string operations the code uses.        *)

RECURSIVE LStrip(_)
LStrip(s) == IF s # <<>> /\ Head(s) = "/" THEN LStrip(Tail(s)) ELSE s

RECURSIVE RStrip(_)
RStrip(s) ==
  IF s # <<>> /\ s[Len(s)] = "/" THEN RStrip(SubSeq(s, 1, Len(s) - 1)) ELSE s

(* str.strip("/"): removes leading and trailing slashes. *)
Strip(s) == RStrip(LStrip(s))

LowerChar(c) == IF c = "A" THEN "a" ELSE IF c = "B" THEN "b" ELSE c

(* str.lower() *)
Lower(s) == [i \in 1..Len(s) |-> LowerChar(s[i])]

RECURSIVE SplitFrom(_, _, _, _)
SplitFrom(s, i, cur, acc) ==
  IF i > Len(s) THEN Append(acc, cur)
  ELSE IF s[i] = "," THEN SplitFrom(s, i + 1, <<>>, Append(acc, cur))
  ELSE SplitFrom(s, i + 1, Append(cur, s[i]), acc)

(* str.split(","): "a,b" gives two segments, "" gives one empty segment. *)
Split(s) == SplitFrom(s, 1, <<>>, <<>>)

----------------------------------------------------------------------------
(* Record classifier.                                                      *)
(* A raw record is [type, md5, sha256, text, rating, confidence, tags],    *)
(* every field optional. tags, when present, is the list tags["data"] of   *)
(* tag infos, each an optional name.                                       *)

RATING_TO_SEVERITY_TwoIsMedium(r) ==
  CASE r = 0 -> "Unknown"
    [] r = 1 -> "Low"
    [] r = 2 -> "Medium"
    [] r = 3 -> "Medium"
    [] r = 4 -> "High"
    [] r = 5 -> "Critical"

(* main.py 71-78 *)
RATING_TO_SEVERITY(r) ==
  CASE r = 0 -> "Unknown"
    [] r = 1 -> "Low"
    [] r = 2 -> "Low"
    [] r = 3 -> "Medium"
    [] r = 4 -> "High"
    [] r = 5 -> "Critical"

RatingKnown(r) == r \in 0..5

get_reputation_NoFloor(ioc) ==
  IF IsSome(ioc.confidence) THEN Val(ioc.confidence) \div 10 ELSE 5

(* main.py 233-251 *)
get_reputation(ioc) ==
  IF IsSome(ioc.confidence)
    THEN IF Val(ioc.confidence) # 0 /\ Val(ioc.confidence) > 10
           THEN Val(ioc.confidence) \div 10
           ELSE 1
    ELSE 5

RECURSIVE TagInfoNames(_)
TagInfoNames(infos) ==
  IF infos = <<>> THEN <<>>
  ELSE (IF IsSome(Head(infos)) THEN <<Val(Head(infos))>> ELSE <<>>)
       \o TagInfoNames(Tail(infos))

SeqRange(s) == {s[i] : i \in 1..Len(s)}

HasProvenanceTag_FirstOnly(ioc) ==
  /\ IsSome(ioc.tags)
  /\ Val(ioc.tags) # <<>>
  /\ IsSome(Val(ioc.tags)[1])
  /\ Val(Val(ioc.tags)[1]) = TAG_NAME

(* main.py 326-335: the record carries the connector's own tag. *)
HasProvenanceTag(ioc) ==
  /\ IsSome(ioc.tags)
  /\ TAG_NAME \in SeqRange(TagInfoNames(Val(ioc.tags)))

(* tag.strip() on the tag names of the model. *)
TagStrip(name) == IF name = " t1" THEN "t1" ELSE name

(* Names the local tag store refuses to create (TagIn raises ValueError). *)
TooLongTags == {"toolong"}

RECURSIVE CreateTagsLoop(_, _, _, _)
CreateTagsLoop(tags, store, names, skipped) ==
  IF tags = <<>> THEN [tags |-> names, skipped |-> skipped, store |-> store]
  ELSE LET tag == Head(tags) IN
       IF TagStrip(tag) \in store
         THEN CreateTagsLoop(Tail(tags), store, Append(names, tag), skipped)
       ELSE IF TagStrip(tag) \in TooLongTags
         THEN CreateTagsLoop(Tail(tags), store, names, Append(skipped, tag))
       ELSE CreateTagsLoop(Tail(tags), store \cup {TagStrip(tag)},
                           Append(names, tag), skipped)

create_tags_IgnoresSetting(store, tags, configuration) ==
  CreateTagsLoop(tags, store, <<>>, <<>>)

(* main.py 544-564 *)
create_tags(store, tags, configuration) ==
  IF configuration.enable_tagging # "Yes"
    THEN [tags |-> <<>>, skipped |-> <<>>, store |-> store]
    ELSE CreateTagsLoop(tags, store, <<>>, <<>>)

(* main.py 338-349: the tag names attached to a record's indicators. *)
RecordTags(ioc, configuration, store) ==
  IF configuration.enable_tagging = "Yes" /\ IsSome(ioc.tags)
    THEN create_tags(store, TagInfoNames(Val(ioc.tags)), configuration)
    ELSE [tags |-> <<>>, skipped |-> <<>>, store |-> store]

Indicator(value, type, ioc, tags) ==
  [value |-> value, type |-> type,
   severity |-> RATING_TO_SEVERITY(IF IsSome(ioc.rating) THEN Val(ioc.rating) ELSE 0),
   reputation |-> get_reputation(ioc), tags |-> tags]

(* Indicator(...) raises inside the try block: the value is not a string   *)
(* (modelled as the one-character value "#") or the rating has no entry in *)
(* RATING_TO_SEVERITY.                                                     *)
IndicatorRaises(value, ioc) ==
  \/ value = <<"#">>
  \/ IsSome(ioc.rating) /\ ~RatingKnown(Val(ioc.rating))

HashIndicators_Sha256First(ioc, tags) ==
  (IF IsSome(ioc.sha256) /\ ~IndicatorRaises(Val(ioc.sha256), ioc)
     THEN <<Indicator(Lower(Val(ioc.sha256)), "sha256", ioc, tags)>> ELSE <<>>)
  \o
  (IF IsSome(ioc.md5) /\ ~IndicatorRaises(Val(ioc.md5), ioc)
     THEN <<Indicator(Lower(Val(ioc.md5)), "md5", ioc, tags)>> ELSE <<>>)

(* main.py 353-389: one try block per hash field. *)
HashIndicators(ioc, tags) ==
  (IF IsSome(ioc.md5) /\ ~IndicatorRaises(Val(ioc.md5), ioc)
     THEN <<Indicator(Lower(Val(ioc.md5)), "md5", ioc, tags)>> ELSE <<>>)
  \o
  (IF IsSome(ioc.sha256) /\ ~IndicatorRaises(Val(ioc.sha256), ioc)
     THEN <<Indicator(Lower(Val(ioc.sha256)), "sha256", ioc, tags)>> ELSE <<>>)

RECURSIVE UrlIndicatorsOf(_, _, _)
UrlIndicatorsOf(segs, ioc, tags) ==
  IF segs = <<>> THEN <<>>
  ELSE (IF IndicatorRaises(Head(segs), ioc) THEN <<>>
        ELSE <<Indicator(Head(segs), "url", ioc, tags)>>)
       \o UrlIndicatorsOf(Tail(segs), ioc, tags)

(* main.py 391-408 *)
UrlIndicators(ioc, tags) == UrlIndicatorsOf(Split(Val(ioc.text)), ioc, tags)

(* ioc_json["type"] or ioc_json["text"] raises KeyError outside any try. *)
RecordRaises(ioc) ==
  \/ ~IsSome(ioc.type)
  \/ Val(ioc.type) # "File" /\ ~IsSome(ioc.text)

RECURSIVE MakeIndicatorsLoop(_, _, _, _, _)
MakeIndicatorsLoop(data, configuration, out, store, skipped) ==
  IF data = <<>>
    THEN [out |-> out, store |-> store, skipped |-> skipped, raised |-> FALSE]
  ELSE LET ioc == Head(data) IN
       IF HasProvenanceTag(ioc)
         THEN MakeIndicatorsLoop(Tail(data), configuration, out, store, skipped)
       ELSE LET t == RecordTags(ioc, configuration, store) IN
            IF RecordRaises(ioc)
              THEN [out |-> out, store |-> t.store,
                    skipped |-> skipped \cup SeqRange(t.skipped), raised |-> TRUE]
            ELSE MakeIndicatorsLoop(
                   Tail(data), configuration,
                   out \o (IF Val(ioc.type) = "File"
                             THEN HashIndicators(ioc, t.tags)
                             ELSE UrlIndicators(ioc, t.tags)),
                   t.store, skipped \cup SeqRange(t.skipped))

(* main.py 313-417: appends to indicator_list the indicators of one page;  *)
(* raised tells that an exception left the function.                       *)
make_indicators(data, indicator_list, configuration, store) ==
  MakeIndicatorsLoop(data, configuration, indicator_list, store, {})

----------------------------------------------------------------------------
(* Configuration, checkpoint and URLs.                                     *)

BaseUrls == {<<"h">>, <<"h", "/">>, <<"g">>}
AccessIds == {"id1", "id2"}
SecretKeys == {"k1", "k2"}
ThreatTypes == {"Both", "File"}
DaysValues == {7}
YesNo == {"Yes", "No"}

Configurations ==
  [base_url : BaseUrls, access_id : AccessIds, secret_key : SecretKeys,
   threat_type : ThreatTypes, days : DaysValues, enable_tagging : YesNo,
   is_pull_required : YesNo]

InitialConfiguration ==
  [base_url |-> <<"h">>, access_id |-> "id1", secret_key |-> "k1",
   threat_type |-> "Both", days |-> 7, enable_tagging |-> "No",
   is_pull_required |-> "Yes"]

(* The configurations that differ from c in exactly one field. *)
OneFieldChanges(c) ==
  {d \in Configurations :
     Cardinality({f \in DOMAIN c : c[f] # d[f]}) = 1}

(* self.storage as an empty dictionary. *)
EmptyStorage == [next_uri |-> None, configuration_details |-> None]

(* prev_configuration.get(field, ""), main.py 453-457 *)
PrevField(storage, field, default) ==
  IF IsSome(storage.configuration_details)
    THEN Val(storage.configuration_details)[field]
    ELSE default

configuration_match_NoThreatType(storage, configuration, threat_type) ==
  /\ Strip(PrevField(storage, "base_url", <<>>)) = Strip(configuration.base_url)
  /\ PrevField(storage, "access_id", "") = configuration.access_id
  /\ PrevField(storage, "secret_key", "") = configuration.secret_key

(* main.py 462-467 *)
configuration_match(storage, configuration, threat_type) ==
  /\ Strip(PrevField(storage, "base_url", <<>>)) = Strip(configuration.base_url)
  /\ PrevField(storage, "access_id", "") = configuration.access_id
  /\ PrevField(storage, "secret_key", "") = configuration.secret_key
  /\ PrevField(storage, "threat_type", "") = threat_type

(* An API URL is [base, since, page]: base is the host prefix (empty for a *)
(* path relative to the base URL), since the lastModified lower bound of   *)
(* its query, page the result page (resultStart div resultLimit, plus 1).  *)

get_api_url_LookbackOnly(last_run_at, now, configuration) ==
  [base |-> <<>>, since |-> now - configuration.days, page |-> 1]

(* main.py 253-285 *)
get_api_url(last_run_at, now, configuration) ==
  [base |-> <<>>,
   since |-> IF IsSome(last_run_at) THEN Val(last_run_at)
             ELSE now - configuration.days,
   page |-> 1]

(* main.py 472: api_url and configuration_match *)
ResumeCursor(storage, configuration, threat_type) ==
  /\ IsSome(storage.next_uri)
  /\ configuration_match(storage, configuration, threat_type)

(* main.py 452-473: the URL of the invocation's first GET. *)
FirstApiUrl(storage, configuration, threat_type, last_run_at, now) ==
  IF ResumeCursor(storage, configuration, threat_type)
    THEN Val(storage.next_uri)
    ELSE get_api_url(last_run_at, now, configuration)

(* main.py 522-524: next with the base URL prefix removed. *)
NextApiUrl(next, configuration) ==
  IF next.base = Strip(configuration.base_url)
    THEN [next EXCEPT !.base = <<>>]
    ELSE next

SuspendedStorage_KeepOld(storage, api_url, configuration) == storage

SuspendedStorage_CursorOnly(storage, api_url, configuration) ==
  [storage EXCEPT !.next_uri = Some(api_url)]

(* main.py 499-501 *)
SuspendedStorage(storage, api_url, configuration) ==
  [next_uri |-> Some(api_url), configuration_details |-> Some(configuration)]

DoneStorage_KeepCursor(storage, configuration) ==
  [storage EXCEPT !.configuration_details = Some(configuration)]

(* main.py 526-527 and 531-532 *)
DoneStorage(storage, configuration) ==
  [next_uri |-> None, configuration_details |-> Some(configuration)]

TruncatedStorage_CursorOnly(storage, api_url, configuration) ==
  [storage EXCEPT !.next_uri = Some(api_url)]

TruncatedStorage_NoCursor(storage, api_url, configuration) ==
  [storage EXCEPT !.configuration_details = Some(configuration)]

(* main.py 537-538 *)
TruncatedStorage(storage, api_url, configuration) ==
  [storage EXCEPT !.next_uri = Some(api_url),
                  !.configuration_details = Some(configuration)]

FailedStorage_Suspend(storage, api_url, configuration) ==
  [next_uri |-> Some(api_url), configuration_details |-> Some(configuration)]

(* main.py 510-519: an exception raised outside the try block leaves the   *)
(* storage dictionary alone.                                               *)
FailedStorage(storage, api_url, configuration) == storage

(* main.py 533: return [] *)
EmptyDataReturn(indicator_list) == <<>>

PageLimitReached_Late(page_count) == page_count > PAGE_LIMIT

(* main.py 536 *)
PageLimitReached(page_count) == page_count >= PAGE_LIMIT

handle_error_ServerErrorPasses(status_code, json_ok) ==
  IF status_code = 200 \/ status_code = 201
    THEN IF json_ok THEN "json" ELSE "none"
    ELSE IF status_code >= 400 /\ status_code < 500 THEN "raise" ELSE "none"

handle_error_RaiseAll(status_code, json_ok) ==
  IF status_code = 200 \/ status_code = 201
    THEN IF json_ok THEN "json" ELSE "none"
    ELSE "raise"

(* main.py 152-198: "json" returns the parsed body, "none" returns None,   *)
(* "raise" is raise_for_status() raising HTTPError (status 400..599).      *)
handle_error(status_code, json_ok) ==
  IF status_code = 200 \/ status_code = 201
    THEN IF json_ok THEN "json" ELSE "none"
    ELSE IF status_code >= 400 /\ status_code < 600 THEN "raise" ELSE "none"

----------------------------------------------------------------------------
(* The remote service: a backlog of n result pages. Every page holds per   *)
(* records of kind "file", except page special (when not 0), which holds   *)
(* records of the given kind or, for "empty", no record at all. A page     *)
(* without data is the last one: it carries no next reference.             *)

Digit(i) == <<"0", "1", "2", "3", "4", "5", "6", "7", "8", "9">>[i + 1]

FileRecord(p, j) ==
  [type |-> Some("File"), md5 |-> Some(<<"A", Digit(p), Digit(j)>>),
   sha256 |-> Some(<<"B", Digit(p), Digit(j)>>), text |-> None,
   rating |-> Some(3), confidence |-> Some(55), tags |-> Some(<<Some("t1")>>)]

UrlRecord(p, j) ==
  [type |-> Some("URL"), md5 |-> None, sha256 |-> None,
   text |-> Some(<<"u", Digit(p), Digit(j), ",", "v", Digit(p), Digit(j), ",", "w">>),
   rating |-> None, confidence |-> None, tags |-> None]

OwnRecord(p, j) ==
  [FileRecord(p, j) EXCEPT !.tags = Some(<<Some("t1"), Some(TAG_NAME)>>)]

BadRecord(p, j) == [FileRecord(p, j) EXCEPT !.type = None]

RecordOfKind(kind, p, j) ==
  CASE kind = "file" -> FileRecord(p, j)
    [] kind = "url" -> UrlRecord(p, j)
    [] kind = "own" -> OwnRecord(p, j)
    [] kind = "bad" -> BadRecord(p, j)

SpecialKinds == {"empty", "url", "own", "bad"}

Backlogs ==
  {b \in [n : 1..MaxPages, special : 0..MaxPages, kind : SpecialKinds,
          per : 1..LIMIT] :
     /\ b.special <= b.n
     /\ b.special = 0 => b.kind = "url"
     /\ b.kind = "empty" => b.special = b.n}

PageKind(b, p) == IF p = b.special THEN b.kind ELSE "file"

(* The data list of page p. *)
PageData(b, p) ==
  IF PageKind(b, p) = "empty" THEN <<>>
  ELSE [j \in 1..b.per |-> RecordOfKind(PageKind(b, p), p, j)]

(* The next reference of the page at url: the full URL of the next page. *)
PageNext(b, url, configuration) ==
  IF url.page < b.n
    THEN Some([base |-> Strip(configuration.base_url), since |-> url.since,
               page |-> url.page + 1])
    ELSE None

----------------------------------------------------------------------------
VARIABLES
  storage,          \* self.storage: the checkpoint dictionary
  configuration,    \* self.configuration
  last_run_at,      \* self.last_run_at, set by the host
  now,              \* datetime.datetime.now()
  tag_store,        \* the names TagUtils.exists() finds
  backlog,          \* the remote service's pages
  pc,               \* "idle", "fetching", "returned", "raised"
  api_url, page_count, retry_count, indicator_list,   \* locals of the pull
  sleeps,           \* the time.sleep() calls of the current page's GET loop
  start_storage,    \* storage as read at the start of the invocation
  first_get,        \* URL of the invocation's first GET
  last_get,         \* URL of the invocation's latest GET
  fetched,          \* pages classified by this invocation, in order
  terminal,         \* how the invocation ended
  cause,            \* what ended it
  http_status,      \* status code of the response finally received
  ret,              \* the list the invocation returned
  writes,           \* the writes of the checkpoint by this invocation
  returned,         \* concatenation of the lists returned so far
  runs, config_changes, dones, fails,
  cl_data, cl_configuration, cl_store, cl_result, cl_tags, cl_pushed,
  cl_pc  \* classifier runs

pull_vars ==
  <<storage, configuration, last_run_at, now, tag_store, backlog, pc, api_url,
    page_count, retry_count, indicator_list, sleeps, start_storage, first_get,
    last_get, fetched, terminal, cause, http_status, ret, writes, returned,
    runs, config_changes, dones, fails>>

cl_vars ==
  <<cl_data, cl_configuration, cl_store, cl_result, cl_tags, cl_pushed, cl_pc>>

VARIABLES
  action_dict,        \* the action dictionary object push() is handed
  configured_action,  \* the action parameters as the sharing rule holds them
  push_indicators,    \* the indicators list push() is handed
  remote_groups,      \* the groups of the remote service: [name, id]
  remote_inds,        \* the indicator records of the remote service
  remote_assoc,       \* its indicator-to-group associations: <<key, id>>
  ps_pc,              \* "off", "idle", "posting", "returned", "raised"
  existing_group_id,  \* local of push: what get_group_id returned
  ps_idx,             \* position of the next indicator of the for loop
  invalid_ioc, already_exists,                        \* locals of push
  push_log,           \* the requests of the current push run, in order
  push_result,        \* PushResult.success of the current run
  resolution,         \* how get_group_id went in the current run
  faithful,           \* the remote service has answered from what it keeps
  push_runs,
  created,            \* keys of the records the service created, in order
  first_run           \* the remote service as the first run left it

push_vars ==
  <<action_dict, configured_action, push_indicators, remote_groups,
    remote_inds, remote_assoc, ps_pc, existing_group_id, ps_idx, invalid_ioc,
    already_exists, push_log, push_result, resolution, faithful, push_runs,
    created, first_run>>

vars == <<pull_vars, cl_vars, push_vars>>

NoUrl == [base |-> <<>>, since |-> 0, page |-> 0]

InitPull ==
  /\ storage = EmptyStorage
  /\ last_run_at = None
  /\ now = 0
  /\ tag_store = {}
  /\ pc = "idle"
  /\ api_url = NoUrl
  /\ page_count = 0
  /\ retry_count = 0
  /\ indicator_list = <<>>
  /\ sleeps = <<>>
  /\ start_storage = EmptyStorage
  /\ first_get = None
  /\ last_get = None
  /\ fetched = <<>>
  /\ terminal = "none"
  /\ cause = "none"
  /\ http_status = None
  /\ ret = <<>>
  /\ writes = 0
  /\ returned = <<>>
  /\ runs = 0
  /\ config_changes = 0
  /\ dones = 0
  /\ fails = 0

InitClassifierIdle ==
  /\ cl_data = <<>>
  /\ cl_configuration = InitialConfiguration
  /\ cl_store = {}
  /\ cl_result = None
  /\ cl_tags = None
  /\ cl_pushed = None
  /\ cl_pc = "off"

(* Names and ids of groups are sequences of characters. *)
CREATE_GROUP == <<"create_group">>

OldGroup == [name |-> <<"o">>, id |-> <<"7">>]

NoAction ==
  [group_name |-> OldGroup.id, new_group_name |-> <<>>,
   new_group_type |-> "Incident"]

InitRemote ==
  /\ remote_groups = {OldGroup}
  /\ remote_inds = {}
  /\ remote_assoc = {}
  /\ created = <<>>
  /\ first_run = None
  /\ faithful = TRUE

InitPushLocals ==
  /\ existing_group_id = None
  /\ ps_idx = 1
  /\ invalid_ioc = 0
  /\ already_exists = 0
  /\ push_log = <<>>
  /\ push_result = None
  /\ resolution = "none"
  /\ push_runs = 0

InitPushIdle ==
  /\ action_dict = NoAction
  /\ configured_action = NoAction
  /\ push_indicators = <<>>
  /\ ps_pc = "off"
  /\ InitRemote
  /\ InitPushLocals

(* The configurations an installation starts with. *)
StartConfigurations ==
  {c \in Configurations :
     \A f \in {"base_url", "access_id", "secret_key", "threat_type", "days"} :
       c[f] = InitialConfiguration[f]}

Init ==
  /\ InitPull
  /\ configuration \in StartConfigurations
  /\ backlog \in Backlogs
  /\ InitClassifierIdle
  /\ InitPushIdle

locals == <<api_url, page_count, retry_count, indicator_list, sleeps>>
observed == <<start_storage, first_get, last_get, fetched, terminal, cause,
              http_status, ret, writes>>
counters == <<runs, config_changes, dones, fails>>
host_vars == <<last_run_at, now, returned>>

(* The host edits the configuration between two invocations. *)
ChangeConfig ==
  /\ pc = "idle"
  /\ config_changes < MaxConfigChanges
  /\ \E d \in OneFieldChanges(configuration) : configuration' = d
  /\ config_changes' = config_changes + 1
  /\ UNCHANGED <<storage, tag_store, backlog, pc, locals, observed, host_vars,
                 runs, dones, fails, cl_vars, push_vars>>

PullDisabled_ClearsCursor ==
  /\ pc = "idle"
  /\ runs < MaxRuns
  /\ configuration.is_pull_required # "Yes"
  /\ pc' = "returned"
  /\ ret' = <<>>
  /\ terminal' = "Paused"
  /\ cause' = "disabled"
  /\ start_storage' = storage
  /\ storage' = DoneStorage(storage, configuration)
  /\ first_get' = None
  /\ last_get' = None
  /\ fetched' = <<>>
  /\ http_status' = None
  /\ writes' = 0
  /\ runs' = runs + 1
  /\ UNCHANGED <<configuration, tag_store, backlog, locals, host_vars,
                 config_changes, dones, fails, cl_vars, push_vars>>

(* main.py 761-776, polling disabled *)
PullDisabled ==
  /\ pc = "idle"
  /\ runs < MaxRuns
  /\ configuration.is_pull_required # "Yes"
  /\ pc' = "returned"
  /\ ret' = <<>>
  /\ terminal' = "Paused"
  /\ cause' = "disabled"
  /\ start_storage' = storage
  /\ first_get' = None
  /\ last_get' = None
  /\ fetched' = <<>>
  /\ http_status' = None
  /\ writes' = 0
  /\ runs' = runs + 1
  /\ UNCHANGED <<storage, configuration, tag_store, backlog, locals, host_vars,
                 config_changes, dones, fails, cl_vars, push_vars>>

(* main.py 761-773 and 434-473 *)
StartPull ==
  /\ pc = "idle"
  /\ runs < MaxRuns
  /\ configuration.is_pull_required = "Yes"
  /\ pc' = "fetching"
  /\ api_url' = FirstApiUrl(storage, configuration, configuration.threat_type,
                            last_run_at, now)
  /\ page_count' = 0
  /\ retry_count' = 0
  /\ indicator_list' = <<>>
  /\ sleeps' = <<>>
  /\ start_storage' = storage
  /\ first_get' = None
  /\ last_get' = None
  /\ fetched' = <<>>
  /\ terminal' = "none"
  /\ cause' = "none"
  /\ http_status' = None
  /\ ret' = <<>>
  /\ writes' = 0
  /\ runs' = runs + 1
  /\ UNCHANGED <<storage, configuration, tag_store, backlog, host_vars,
                 config_changes, dones, fails, cl_vars, push_vars>>

(* A GET is issued to api_url (main.py 481-483). *)
IssueGet ==
  /\ pc = "fetching"
  /\ first_get' = IF IsSome(first_get) THEN first_get ELSE Some(api_url)
  /\ last_get' = Some(api_url)

(* main.py 498-509: the except branch. *)
Suspend(why, status) ==
  /\ storage' = SuspendedStorage(storage, api_url, configuration)
  /\ ret' = indicator_list
  /\ pc' = "returned"
  /\ terminal' = "Suspended"
  /\ cause' = why
  /\ http_status' = status
  /\ writes' = writes + 1
  /\ UNCHANGED <<configuration, tag_store, backlog, api_url, page_count,
                 retry_count, indicator_list, start_storage, fetched,
                 host_vars, counters, cl_vars, push_vars>>

(* An exception that leaves pull_data_from_threatconnect. *)
Fail(why, status, list, store) ==
  /\ storage' = FailedStorage(storage, api_url, configuration)
  /\ ret' = <<>>
  /\ pc' = "raised"
  /\ terminal' = "Failed"
  /\ cause' = why
  /\ http_status' = status
  /\ indicator_list' = list
  /\ tag_store' = store
  /\ UNCHANGED writes
  /\ UNCHANGED <<configuration, backlog, api_url, page_count, retry_count,
                 start_storage, fetched, host_vars, counters, cl_vars,
                 push_vars>>

(* requests.get raises (connection, proxy or other request exception). *)
GetTransportError ==
  /\ IssueGet
  /\ Suspend("transport", None)
  /\ UNCHANGED sleeps

RetryAgain_OnceMore(count) == count < MAX_RETRY

(* main.py 480: for retry_count in range(MAX_RETRY) *)
RetryAgain(count) == count + 1 < MAX_RETRY

(* main.py 480-497: a 500 or 503 answer. *)
GetServerError ==
  /\ IssueGet
  /\ \E status \in {500, 503} :
       /\ sleeps' = Append(sleeps, (retry_count + 1) * 30)
       /\ IF RetryAgain(retry_count)
            THEN /\ retry_count' = retry_count + 1
                 /\ http_status' = Some(status)
                 /\ UNCHANGED <<storage, configuration, tag_store, backlog, pc,
                                api_url, page_count, indicator_list,
                                start_storage, fetched, terminal, cause, ret,
                                writes, host_vars, counters, cl_vars,
                                push_vars>>
            ELSE IF handle_error(status, TRUE) = "raise"
              THEN Suspend("http_error", Some(status))
              ELSE Fail("no_body", Some(status), indicator_list, tag_store)

(* Any other answer than 200, 201, 500, 503: handle_error decides. *)
GetOtherStatus ==
  /\ IssueGet
  /\ \E status \in {204, 401, 404} :
       IF handle_error(status, TRUE) = "raise"
         THEN Suspend("http_error", Some(status)) /\ UNCHANGED sleeps
         ELSE Fail("no_body", Some(status), indicator_list, tag_store)
              /\ UNCHANGED sleeps

(* A 200/201 answer whose body is not JSON or whose status is not Success. *)
GetBadBody ==
  /\ IssueGet
  /\ \E status \in {200, 201} : \E json_ok \in BOOLEAN :
       /\ Fail(IF json_ok THEN "body_status" ELSE "no_body", Some(status),
               indicator_list, tag_store)
       /\ UNCHANGED sleeps

(* main.py 515-542: a 200/201 answer with status Success. *)
GetPage ==
  /\ IssueGet
  /\ \E status \in {200, 201} :
       LET data == PageData(backlog, api_url.page)
           next == PageNext(backlog, api_url, configuration)
           made == make_indicators(data, indicator_list, configuration, tag_store)
       IN
       IF data = <<>>
         THEN /\ storage' = DoneStorage(storage, configuration)
              /\ ret' = EmptyDataReturn(indicator_list)
              /\ writes' = writes + 1
              /\ pc' = "returned"
              /\ terminal' = "Done"
              /\ cause' = "empty"
              /\ http_status' = Some(status)
              /\ UNCHANGED <<configuration, tag_store, backlog, locals,
                             start_storage, fetched, host_vars, counters,
                             cl_vars, push_vars>>
       ELSE IF made.raised
         THEN Fail("record", Some(status), made.out, made.store)
              /\ UNCHANGED sleeps
       ELSE
         /\ indicator_list' = made.out
         /\ tag_store' = made.store
         /\ fetched' = Append(fetched, api_url.page)
         /\ http_status' = Some(status)
         /\ UNCHANGED <<configuration, backlog, start_storage, host_vars,
                        counters, cl_vars, push_vars>>
         /\ IF ~IsSome(next)
              THEN /\ storage' = DoneStorage(storage, configuration)
                   /\ ret' = made.out
                   /\ writes' = writes + 1
                   /\ pc' = "returned"
                   /\ terminal' = "Done"
                   /\ cause' = "no_next"
                   /\ UNCHANGED <<api_url, page_count, retry_count, sleeps>>
              ELSE /\ api_url' = NextApiUrl(Val(next), configuration)
                   /\ page_count' = page_count + 1
                   /\ IF PageLimitReached(page_count + 1)
                        THEN /\ storage' = TruncatedStorage(
                                  storage, NextApiUrl(Val(next), configuration),
                                  configuration)
                             /\ ret' = made.out
                             /\ writes' = writes + 1
                             /\ pc' = "returned"
                             /\ terminal' = "Truncated"
                             /\ cause' = "page_limit"
                             /\ UNCHANGED <<retry_count, sleeps>>
                        ELSE /\ retry_count' = 0
                             /\ sleeps' = <<>>
                             /\ UNCHANGED <<storage, ret, writes, pc, terminal,
                                            cause>>

(* Between two invocations nothing of the last one is left but the        *)
(* checkpoint and what the host recorded.                                  *)
ForgetRun ==
  /\ start_storage' = EmptyStorage
  /\ first_get' = None
  /\ last_get' = None
  /\ fetched' = <<>>
  /\ terminal' = "none"
  /\ cause' = "none"
  /\ http_status' = None
  /\ ret' = <<>>
  /\ writes' = 0

(* The host takes the returned list and records the run. *)
HostReceive ==
  /\ pc = "returned"
  /\ pc' = "idle"
  /\ returned' = returned \o ret
  /\ last_run_at' = Some(now)
  /\ now' = now + 1
  /\ dones' = IF terminal = "Done" THEN dones + 1 ELSE dones
  /\ api_url' = NoUrl
  /\ page_count' = 0
  /\ retry_count' = 0
  /\ indicator_list' = <<>>
  /\ sleeps' = <<>>
  /\ ForgetRun
  /\ UNCHANGED <<storage, configuration, tag_store, backlog, runs,
                 config_changes, fails, cl_vars, push_vars>>

(* The host sees the exception of a failed run. *)
HostCatch ==
  /\ pc = "raised"
  /\ pc' = "idle"
  /\ now' = now + 1
  /\ fails' = fails + 1
  /\ api_url' = NoUrl
  /\ page_count' = 0
  /\ retry_count' = 0
  /\ indicator_list' = <<>>
  /\ sleeps' = <<>>
  /\ ForgetRun
  /\ UNCHANGED <<storage, configuration, tag_store, backlog,
                 last_run_at, returned, runs, config_changes, dones, cl_vars, push_vars>>

Next ==
  \/ PullDisabled
  \/ StartPull
  \/ GetTransportError
  \/ GetServerError
  \/ GetOtherStatus
  \/ GetBadBody
  \/ GetPage
  \/ HostReceive
  \/ HostCatch

(* Spec: every backlog, the configuration fixed. *)
Spec == Init /\ [][Next]_vars

(* The remote service answers every GET, or the GET raises. *)
GetStep ==
  \/ GetTransportError
  \/ GetServerError
  \/ GetOtherStatus
  \/ GetBadBody
  \/ GetPage

(* SpecFair: no GET stays unanswered for ever; the backlogs are the        *)
(* longest ones, of one record a page, so that every page fetched within   *)
(* the page limit carries a next reference.                                *)
FairBacklogs == {b \in Backlogs : b.n = MaxPages /\ b.per = 1}

InitFair ==
  /\ InitPull
  /\ configuration \in StartConfigurations
  /\ backlog \in FairBacklogs
  /\ InitClassifierIdle
  /\ InitPushIdle

SpecFair == InitFair /\ [][Next]_vars /\ WF_vars(GetStep)

(* SpecConfig: the host may edit the configuration between invocations;    *)
(* the backlog is the longest one, made of plain pages of one record.      *)
PlainBacklogs == {b \in Backlogs : b.special = 0 /\ b.per = 1 /\ b.n = MaxPages}

InitConfig ==
  /\ InitPull
  /\ configuration = InitialConfiguration
  /\ backlog \in PlainBacklogs
  /\ InitClassifierIdle
  /\ InitPushIdle

NextConfig ==
  \/ ChangeConfig
  \/ Next

SpecConfig == InitConfig /\ [][NextConfig]_vars

----------------------------------------------------------------------------
(* SpecClassify: make_indicators applied to one page of raw records.       *)

ClTypes == {None, Some("File"), Some("URL")}
ClMd5 == {None, Some(<<"A", "1">>), Some(<<"#">>)}
ClSha256 == {None, Some(<<"B", "2">>)}
ClText == {None, Some(<<"u", ",", "v">>)}
ClRatings == {None, Some(7)} \cup {Some(r) : r \in 0..5}
ClConfidences == {None, Some(0), Some(10), Some(55)}
ClTags ==
  {None, Some(<<>>), Some(<<Some("t1")>>), Some(<<Some(TAG_NAME)>>),
   Some(<<Some("t1"), Some(TAG_NAME)>>), Some(<<None, Some("t1"), Some("t1")>>),
   Some(<<Some(" t1"), Some("toolong")>>)}

ClRecords ==
  [type : ClTypes, md5 : ClMd5, sha256 : ClSha256, text : ClText,
   rating : ClRatings, confidence : ClConfidences, tags : ClTags]

(* The pages classified: a record of ClRecords alone, before a URL record, *)
(* after a record of the connector's own, or before a malformed record.    *)
ClPageOf(r, shape) ==
  CASE shape = "alone" -> <<r>>
    [] shape = "before_url" -> <<r, UrlRecord(1, 1)>>
    [] shape = "after_own" -> <<OwnRecord(1, 1), r>>
    [] shape = "before_bad" -> <<r, BadRecord(1, 1)>>

ClShapes == {"alone", "before_url", "after_own", "before_bad"}

ClSettings ==
  {[tagging |-> "No", store |-> {}], [tagging |-> "Yes", store |-> {}],
   [tagging |-> "Yes", store |-> {"t1"}]}

InitClassify ==
  /\ InitPull
  /\ configuration = InitialConfiguration
  /\ backlog = [n |-> 1, special |-> 0, kind |-> "url", per |-> 1]
  /\ cl_data = <<>>
  /\ cl_configuration = InitialConfiguration
  /\ cl_store = {}
  /\ cl_result = None
  /\ cl_tags = None
  /\ cl_pushed = None
  /\ cl_pc = "off"
  /\ InitPushIdle

(* The inputs of one call: a page, the tagging flag and the tag store. *)
ClassifyInput ==
  /\ cl_pc = "off"
  /\ \E r \in ClRecords : \E shape \in ClShapes : cl_data' = ClPageOf(r, shape)
  /\ \E st \in ClSettings :
       /\ cl_configuration' =
            [InitialConfiguration EXCEPT !.enable_tagging = st.tagging]
       /\ cl_store' = st.store
  /\ cl_pc' = "ready"
  /\ UNCHANGED <<pull_vars, push_vars, cl_result, cl_tags, cl_pushed>>

(* The confidence values of the service, main.py 242. *)
MaxConfidence == 100
ClConfidenceRange == {None} \cup {Some(c) : c \in 0..MaxConfidence}

(* The inputs of one call: a page of one File or URL record whose          *)
(* confidence is any value of the service's range.                         *)
ClassifyConfidence ==
  /\ cl_pc = "off"
  /\ \E c \in ClConfidenceRange : \E kind \in {"file", "url"} :
       cl_data' = <<[RecordOfKind(kind, 1, 1) EXCEPT !.confidence = c]>>
  /\ cl_configuration' = InitialConfiguration
  /\ cl_store' = {}
  /\ cl_pc' = "ready"
  /\ UNCHANGED <<pull_vars, push_vars, cl_result, cl_tags, cl_pushed>>

(* One call of make_indicators on an empty indicator_list. *)
Classify ==
  /\ cl_pc = "ready"
  /\ cl_result' = Some(make_indicators(cl_data, <<>>, cl_configuration, cl_store))
  /\ cl_pc' = "done"
  /\ UNCHANGED <<pull_vars, push_vars, cl_data, cl_configuration, cl_store,
                 cl_tags, cl_pushed>>

(* One call of _create_tags with the tag names of the page's first record. *)
CreateTags ==
  /\ cl_pc = "ready"
  /\ cl_tags' =
       Some(create_tags(cl_store,
                        IF IsSome(cl_data[1].tags)
                          THEN TagInfoNames(Val(cl_data[1].tags)) ELSE <<>>,
                        cl_configuration))
  /\ cl_pc' = "tagged"
  /\ UNCHANGED <<pull_vars, push_vars, cl_data, cl_configuration, cl_store,
                 cl_result, cl_pushed>>


----------------------------------------------------------------------------
(* SpecPush: push() against the remote service.                            *)

(* URL values longer than this are not pushed (500 in the source). *)
URL_MAX_LENGTH == 3
MaxPushRuns == 2

UpperChar(c) ==
  IF c = "a" THEN "A" ELSE IF c = "b" THEN "B" ELSE IF c = "u" THEN "U" ELSE c

(* str.upper() *)
Upper(s) == [i \in 1..Len(s) |-> UpperChar(s[i])]

RECURSIVE LSpaceStrip(_)
LSpaceStrip(s) == IF s # <<>> /\ Head(s) = " " THEN LSpaceStrip(Tail(s)) ELSE s

RECURSIVE RSpaceStrip(_)
RSpaceStrip(s) ==
  IF s # <<>> /\ s[Len(s)] = " "
    THEN RSpaceStrip(SubSeq(s, 1, Len(s) - 1)) ELSE s

(* str.strip(): removes leading and trailing whitespace. *)
SpaceStrip(s) == RSpaceStrip(LSpaceStrip(s))

SEVERITY_TO_RATING_MediumIsTwo(severity) ==
  CASE severity = "Unknown" -> 0
    [] severity = "Low" -> 1
    [] severity = "Medium" -> 2
    [] severity = "High" -> 4
    [] severity = "Critical" -> 5

(* main.py 80-86 *)
SEVERITY_TO_RATING(severity) ==
  CASE severity = "Unknown" -> 0
    [] severity = "Low" -> 1
    [] severity = "Medium" -> 3
    [] severity = "High" -> 4
    [] severity = "Critical" -> 5

prepare_payload_NoTag(indicator, group_id) ==
  [type |-> IF indicator.type = "url"
              THEN (IF 1 <= Len(indicator.value)
                       /\ Len(indicator.value) <= URL_MAX_LENGTH
                      THEN Some("url") ELSE None)
              ELSE Some("File"),
   md5 |-> IF indicator.type = "md5" THEN Some(indicator.value) ELSE None,
   sha256 |-> IF indicator.type = "sha256" THEN Some(indicator.value) ELSE None,
   text |-> IF indicator.type = "url" /\ 1 <= Len(indicator.value)
               /\ Len(indicator.value) <= URL_MAX_LENGTH
              THEN Some(indicator.value) ELSE None,
   rating |-> Some(SEVERITY_TO_RATING(indicator.severity)),
   confidence |-> Some(indicator.reputation * 10),
   tags |-> None,
   associatedGroups |-> <<group_id>>]

(* main.py 840-870: the body of the create POST, with the fields of a raw  *)
(* record and the group the indicator is to be associated with.            *)
prepare_payload(indicator, group_id) ==
  [type |-> IF indicator.type = "url"
              THEN (IF 1 <= Len(indicator.value)
                       /\ Len(indicator.value) <= URL_MAX_LENGTH
                      THEN Some("url") ELSE None)
              ELSE Some("File"),
   md5 |-> IF indicator.type = "md5" THEN Some(indicator.value) ELSE None,
   sha256 |-> IF indicator.type = "sha256" THEN Some(indicator.value) ELSE None,
   text |-> IF indicator.type = "url" /\ 1 <= Len(indicator.value)
               /\ Len(indicator.value) <= URL_MAX_LENGTH
              THEN Some(indicator.value) ELSE None,
   rating |-> Some(SEVERITY_TO_RATING(indicator.severity)),
   confidence |-> Some(indicator.reputation * 10),
   tags |-> Some(<<Some(TAG_NAME)>>),
   associatedGroups |-> <<group_id>>]

TooLongUrl_Never(indicator) == FALSE

(* main.py 926: the URL is too long to be pushed. *)
TooLongUrl(indicator) ==
  indicator.type = "url" /\ Len(indicator.value) > URL_MAX_LENGTH

(* The remote service files a record under its value, whatever its case. *)
RemoteKey(value) == Upper(value)

(* A request of the log, with the JSON body it carries. *)
Request(req, pos, target, group, mode, answer, body) ==
  [req |-> req, pos |-> pos, target |-> target, group |-> group,
   mode |-> mode, answer |-> answer, body |-> body]

(* main.py 804-812: the body of the create-group POST. *)
group_payload(action) ==
  [name |-> SpaceStrip(action.new_group_name), type |-> action.new_group_type,
   tags |-> Some(<<Some(TAG_NAME)>>)]

(* main.py 890-897: the body of the update PUT. *)
update_data(group_id) ==
  [associatedGroups |-> <<group_id>>, mode |-> "append"]

(* main.py 1038-1092 with 999-1036: the dictionary of group names, or None *)
(* when the owner or the listing could not be fetched.                     *)
get_group_names(listing, groups) == IF listing = "ok" THEN Some(groups) ELSE None

GroupNames(group_names) == {g.name : g \in group_names}

GroupIdOf(group_names, name) ==
  (CHOOSE g \in group_names : g.name = name).id

NewGroupId == <<"8">>

(* main.py 778-838. how tells the path taken: "given", "found", "created", *)
(* "create_failed" (the function falls off its end and returns None), or   *)
(* an exception: "listing_raised" (group_names is None), "create_raised"   *)
(* (the answer has no JSON body or no message), "key_raised" (the name as  *)
(* typed is no key of group_names). posted: the create-group POST was sent. *)
get_group_id(action, listing, groups, create_answer) ==
  IF action.group_name # CREATE_GROUP
    THEN [id |-> Some(action.group_name), how |-> "given", action |-> action,
          posted |-> FALSE]
  ELSE LET group_names == get_group_names(listing, groups)
           name == SpaceStrip(action.new_group_name)
       IN
       IF ~IsSome(group_names)
         THEN [id |-> None, how |-> "listing_raised", action |-> action,
               posted |-> FALSE]
       ELSE IF name \notin GroupNames(Val(group_names))
         THEN CASE create_answer = "success" ->
                     [id |-> Some(NewGroupId), how |-> "created",
                      action |-> [action EXCEPT !.group_name = name],
                      posted |-> TRUE]
                [] create_answer = "failure" ->
                     [id |-> None, how |-> "create_failed", action |-> action,
                      posted |-> TRUE]
                [] OTHER ->
                     [id |-> None, how |-> "create_raised", action |-> action,
                      posted |-> TRUE]
       ELSE IF action.new_group_name \in GroupNames(Val(group_names))
         THEN [id |-> Some(GroupIdOf(Val(group_names), action.new_group_name)),
               how |-> "found", action |-> action, posted |-> FALSE]
       ELSE [id |-> None, how |-> "key_raised", action |-> action,
             posted |-> FALSE]

ResolutionRaised(how) == how \in {"listing_raised", "create_raised", "key_raised"}

PostBranch_InvalidAborts(answer) ==
  CASE answer = "created" -> "continue"
    [] answer = "exists" -> "update"
    [] answer \in {"invalid", "excluded", "unknown"} -> "abort"
    [] OTHER -> "raise"

PostBranch_UnknownSkips(answer) ==
  CASE answer = "created" -> "continue"
    [] answer = "exists" -> "update"
    [] answer \in {"invalid", "excluded", "unknown"} -> "invalid"
    [] OTHER -> "raise"

(* main.py 945-976: what push does with the answer to a create POST.       *)
(* "malformed" is an answer without JSON body, status or message, and      *)
(* "transport" an exception of requests.post.                              *)
PostBranch(answer) ==
  CASE answer = "created" -> "continue"
    [] answer = "exists" -> "update"
    [] answer \in {"invalid", "excluded"} -> "invalid"
    [] answer = "unknown" -> "abort"
    [] OTHER -> "raise"

UpdatedCount_Always(count, put_answer) == count + 1

(* main.py 955-956 *)
UpdatedCount(count, put_answer) ==
  IF put_answer = "success" THEN count + 1 ELSE count

PostAnswers ==
  {"created", "exists", "invalid", "excluded", "unknown", "malformed",
   "transport"}
PutAnswers == {"success", "failure", "malformed"}
ListingAnswers == {"ok", "owner_failed", "listing_failed"}
GroupAnswers == {"success", "failure", "malformed"}

(* What a service that keeps what it is sent answers to a create POST. *)
KeptPostAnswer(key) ==
  IF \E r \in remote_inds : r.key = key THEN "exists" ELSE "created"

PushIndicatorSet ==
  {[value |-> <<"a", "1">>, type |-> "md5", severity |-> "Low", reputation |-> 5],
   [value |-> <<"b", "2">>, type |-> "sha256", severity |-> "High",
    reputation |-> 7],
   [value |-> [i \in 1..URL_MAX_LENGTH |-> "u"], type |-> "url",
    severity |-> "Unknown", reputation |-> 1],
   [value |-> [i \in 1..URL_MAX_LENGTH + 1 |-> "u"], type |-> "url",
    severity |-> "Critical", reputation |-> 10]}

(* The lists pushed: one indicator, or two. *)
PushLists ==
  {<<i>> : i \in PushIndicatorSet}
  \cup {<<i, j>> : i \in PushIndicatorSet, j \in PushIndicatorSet}

PushActions ==
  {NoAction,
   [group_name |-> CREATE_GROUP, new_group_name |-> <<"g">>,
    new_group_type |-> "Incident"],
   [group_name |-> CREATE_GROUP, new_group_name |-> <<" ", "g">>,
    new_group_type |-> "Incident"],
   [group_name |-> CREATE_GROUP, new_group_name |-> <<"o">>,
    new_group_type |-> "Incident"]}

InitPush ==
  /\ InitPull
  /\ configuration = InitialConfiguration
  /\ backlog = [n |-> 1, special |-> 0, kind |-> "url", per |-> 1]
  /\ InitClassifierIdle
  /\ configured_action \in PushActions
  /\ action_dict = configured_action
  /\ push_indicators \in PushLists
  /\ ps_pc = "idle"
  /\ InitRemote
  /\ InitPushLocals

remote_vars == <<remote_groups, remote_inds, remote_assoc, created>>
push_inputs == <<configured_action, push_indicators>>

(* main.py 909-924: the host calls push with the rule's action parameters, *)
(* either the dictionary object of the run before or a new copy of them;   *)
(* push resolves the group with get_group_id. The listing and the answer   *)
(* to the create-group POST are drawn only when they are asked for. Runs   *)
(* are followed by another run as long as the service has answered from    *)
(* what it keeps.                                                          *)
PushStart ==
  /\ ps_pc \in {"idle", "returned", "raised"}
  /\ push_runs < MaxPushRuns
  /\ faithful
  /\ \E same_object \in BOOLEAN :
     \E listing \in ListingAnswers :
     \E create_answer \in GroupAnswers :
       LET action == IF same_object THEN action_dict ELSE configured_action
           got == get_group_id(action, listing, remote_groups, create_answer)
       IN
       /\ action.group_name # CREATE_GROUP => listing = "ok"
       /\ ~got.posted => create_answer = "success"
       /\ action_dict' = got.action
       /\ existing_group_id' = got.id
       /\ resolution' = got.how
       /\ push_log' =
            IF got.posted
              THEN <<Request("POST_GROUP", 0, SpaceStrip(action.new_group_name),
                             None, "", create_answer, group_payload(action))>>
              ELSE <<>>
       /\ remote_groups' =
            IF got.how = "created"
              THEN remote_groups
                   \cup {[name |-> SpaceStrip(action.new_group_name),
                          id |-> NewGroupId]}
              ELSE remote_groups
       /\ faithful' = (faithful /\ listing = "ok"
                       /\ (got.posted => create_answer = "success"))
       /\ ps_pc' = IF ResolutionRaised(got.how) THEN "raised" ELSE "posting"
  /\ ps_idx' = 1
  /\ invalid_ioc' = 0
  /\ already_exists' = 0
  /\ push_result' = None
  /\ push_runs' = push_runs + 1
  /\ first_run' =
       IF push_runs = 1
         THEN Some([groups |-> remote_groups, inds |-> remote_inds,
                    assoc |-> remote_assoc, created |-> SeqRange(created),
                    ok |-> push_result = Some(TRUE),
                    reference |-> existing_group_id, how |-> resolution])
         ELSE first_run
  /\ UNCHANGED <<pull_vars, cl_vars, push_inputs, remote_inds, remote_assoc,
                 created>>

(* main.py 925-976: one turn of the for loop. *)
PushIndicator ==
  /\ ps_pc = "posting"
  /\ ps_idx <= Len(push_indicators)
  /\ LET indicator == push_indicators[ps_idx]
         data == prepare_payload(indicator, existing_group_id)
         key == RemoteKey(indicator.value)
     IN
     IF TooLongUrl(indicator)
       THEN /\ invalid_ioc' = invalid_ioc + 1
            /\ ps_idx' = ps_idx + 1
            /\ UNCHANGED <<ps_pc, already_exists, push_log, push_result,
                           faithful, remote_vars>>
     ELSE \E answer \in PostAnswers : \E put_answer \in PutAnswers :
       LET post == Request("POST", ps_idx, indicator.value,
                           data.associatedGroups[1], "", answer, data)
           put == Request("PUT", ps_idx, Upper(indicator.value),
                          data.associatedGroups[1], "append", put_answer,
                          update_data(data.associatedGroups[1]))
           branch == PostBranch(answer)
       IN
       /\ branch # "update" => put_answer = "success"
       /\ faithful' = (faithful /\ answer = KeptPostAnswer(key)
                       /\ (branch = "update" => put_answer = "success"))
       /\ push_log' = IF branch = "update" THEN push_log \o <<post, put>>
                      ELSE Append(push_log, post)
       /\ remote_inds' =
            IF answer = "created"
              THEN remote_inds \cup {[key |-> key, body |-> data]}
              ELSE remote_inds
       /\ created' = IF answer = "created" THEN Append(created, key) ELSE created
       /\ remote_assoc' =
            IF answer = "created" \/ (branch = "update" /\ put_answer = "success")
              THEN remote_assoc \cup {<<key, data.associatedGroups[1]>>}
              ELSE remote_assoc
       /\ already_exists' =
            IF branch = "update" THEN UpdatedCount(already_exists, put_answer)
            ELSE already_exists
       /\ invalid_ioc' = IF branch = "invalid" THEN invalid_ioc + 1
                         ELSE invalid_ioc
       /\ ps_pc' =
            IF branch = "raise" \/ (branch = "update" /\ put_answer = "malformed")
              THEN "raised"
            ELSE IF branch = "abort" THEN "returned" ELSE "posting"
       /\ push_result' = IF branch = "abort" THEN Some(FALSE) ELSE push_result
       /\ ps_idx' = IF branch \in {"continue", "invalid"}
                       \/ (branch = "update" /\ put_answer # "malformed")
                      THEN ps_idx + 1 ELSE ps_idx
       /\ UNCHANGED remote_groups
  /\ UNCHANGED <<pull_vars, cl_vars, push_inputs, action_dict,
                 existing_group_id, resolution, push_runs, first_run>>

(* main.py 977-989: the loop is over. *)
PushReturn ==
  /\ ps_pc = "posting"
  /\ ps_idx > Len(push_indicators)
  /\ ps_pc' = "returned"
  /\ push_result' = Some(TRUE)
  /\ UNCHANGED <<pull_vars, cl_vars, push_inputs, action_dict, remote_vars,
                 existing_group_id, ps_idx, invalid_ioc, already_exists,
                 push_log, resolution, faithful, push_runs, first_run>>

(* The records the remote service keeps, as one page of a GET answer: the *)
(* service gives back the fields and the tags it was sent.                *)
RECURSIVE RemotePage(_)
RemotePage(records) ==
  IF records = {} THEN <<>>
  ELSE LET r == CHOOSE x \in records : TRUE IN
       <<r.body>> \o RemotePage(records \ {r})

(* main.py 313-337 after a push: a later pull invocation gets the records  *)
(* the pushes have created so far and hands the page to make_indicators.   *)
PullRemote ==
  /\ ps_pc \in {"returned", "raised"}
  /\ cl_pc = "off"
  /\ remote_inds # {}
  /\ cl_data' = RemotePage(remote_inds)
  /\ \E tagging \in YesNo :
       cl_configuration' =
         [InitialConfiguration EXCEPT !.enable_tagging = tagging]
  /\ cl_result' = Some(make_indicators(cl_data', <<>>, cl_configuration', cl_store))
  /\ cl_pc' = "done"
  /\ UNCHANGED <<pull_vars, push_vars, cl_store, cl_tags, cl_pushed>>

NextPush ==
  \/ PushStart
  \/ PushIndicator
  \/ PushReturn
  \/ PullRemote

SpecPush == InitPush /\ [][NextPush]_vars

----------------------------------------------------------------------------
(* SpecClassify, continued: what push sends, read back by make_indicators. *)

(* The keys of SEVERITY_TO_RATING, main.py 80-86. *)
SeverityTypes == {"Unknown", "Low", "Medium", "High", "Critical"}

(* The reputations of an indicator, main.py 240-241. *)
Reputations == 1..(MaxConfidence \div 10)

PushedValue(type) == IF type = "url" THEN <<"u">> ELSE <<"a", "1">>

(* main.py 840-870 then 313-408: push prepares the payload of an indicator *)
(* and a pull is later handed the record with the rating and confidence of *)
(* that payload, the provenance tag having been taken off it.              *)
ClassifyPushed ==
  /\ cl_pc = "off"
  /\ \E severity \in SeverityTypes : \E reputation \in Reputations :
     \E type \in {"md5", "sha256", "url"} :
       LET indicator == [value |-> PushedValue(type), type |-> type,
                         severity |-> severity, reputation |-> reputation]
           data == prepare_payload(indicator, Some(OldGroup.id))
       IN
       /\ cl_pushed' = Some(indicator)
       /\ cl_data' =
            <<[type |-> data.type, md5 |-> data.md5, sha256 |-> data.sha256,
               text |-> data.text, rating |-> data.rating,
               confidence |-> data.confidence, tags |-> None]>>
  /\ cl_configuration' = InitialConfiguration
  /\ cl_store' = {}
  /\ cl_pc' = "ready"
  /\ UNCHANGED <<pull_vars, push_vars, cl_result, cl_tags>>

NextClassify ==
  \/ ClassifyInput
  \/ ClassifyConfidence
  \/ ClassifyPushed
  \/ Classify
  \/ CreateTags

SpecClassify == InitClassify /\ [][NextClassify]_vars

----------------------------------------------------------------------------
(* Vocabulary of the properties.                                           *)

IsPrefix(s, t) == Len(s) <= Len(t) /\ SubSeq(t, 1, Len(s)) = s

(* The indicators classified from page p of the backlog. *)
PageIndicators(p) ==
  make_indicators(PageData(backlog, p), <<>>, configuration, {}).out

RECURSIVE IndicatorsOfPages(_)
IndicatorsOfPages(ps) ==
  IF ps = <<>> THEN <<>>
  ELSE PageIndicators(Head(ps)) \o IndicatorsOfPages(Tail(ps))

AllPages == [p \in 1..backlog.n |-> p]

Ended == pc \in {"returned", "raised"}

(* The pages the invocation classified are consecutive, from its first GET *)
(* up to the page before its latest GET.                                   *)
ConsecutiveFrom(first, ps) == \A i \in 1..Len(ps) : ps[i] = first + i - 1

(* Base URL with its trailing slashes removed. *)
RECURSIVE TrimTrailingSlashes(_)
TrimTrailingSlashes(u) ==
  IF u # <<>> /\ u[Len(u)] = "/"
    THEN TrimTrailingSlashes(SubSeq(u, 1, Len(u) - 1)) ELSE u

(* The stored fingerprint equals the current configuration. *)
FingerprintEqual(st, c) ==
  /\ IsSome(st.configuration_details)
  /\ LET f == Val(st.configuration_details) IN
       /\ TrimTrailingSlashes(f.base_url) = TrimTrailingSlashes(c.base_url)
       /\ f.access_id = c.access_id
       /\ f.secret_key = c.secret_key
       /\ f.threat_type = c.threat_type

Checkpoint(cursor, c) ==
  [next_uri |-> cursor, configuration_details |-> Some(c)]

----------------------------------------------------------------------------
(* C1: for a fixed backlog and an unchanged configuration, the lists       *)
(* returned by the successive invocations, concatenated, are a prefix of   *)
(* the indicators of the pages in page order, and hold the indicators of   *)
(* every page once the backlog has been pulled to its end.                 *)
C1_EveryPageExactlyOnce ==
  (pc = "returned" /\ dones = 0) =>
    /\ IsPrefix(returned \o ret, IndicatorsOfPages(AllPages))
    /\ terminal = "Done" => returned \o ret = IndicatorsOfPages(AllPages)

(* C2: a transport exception on the GET of page k ends the invocation      *)
(* without raising; it returns the indicators of the pages classified so   *)
(* far and stores the failed GET's URL with the current configuration.     *)
C2_TransportErrorSuspends ==
  cause = "transport" =>
    /\ pc = "returned"
    /\ ConsecutiveFrom(Val(first_get).page, fetched)
    /\ Val(last_get).page = Val(first_get).page + Len(fetched)
    /\ ret = IndicatorsOfPages(fetched)
    /\ storage = Checkpoint(last_get, configuration)

C2_Witness ==
  /\ pc = "returned"
  /\ cause = "transport"
  /\ Len(fetched) >= 1
  /\ ret # <<>>
  /\ IsSome(start_storage.configuration_details)
  /\ Val(start_storage.configuration_details) # configuration

(* C3, as claimed: the first GET goes to the stored cursor if and only if  *)
(* the stored fingerprint equals the current configuration.                *)
C3_ResumeIffFingerprintEqual ==
  IsSome(first_get) =>
    (first_get = start_storage.next_uri
       <=> FingerprintEqual(start_storage, configuration))

(* C3, amended: the first GET goes to the stored cursor if and only if a   *)
(* cursor is stored and the stored fingerprint equals the current          *)
(* configuration; otherwise it goes to page 1 of a freshly built query.    *)
C3_ResumeIffCursorAndFingerprintEqual ==
  IsSome(first_get) =>
    /\ first_get = start_storage.next_uri
         <=> (IsSome(start_storage.next_uri)
              /\ FingerprintEqual(start_storage, configuration))
    /\ first_get # start_storage.next_uri =>
         Val(first_get).page = 1 /\ Val(first_get).base = <<>>

C3_Witness ==
  /\ IsSome(first_get)
  /\ first_get = start_storage.next_uri
  /\ Val(start_storage.configuration_details).base_url # configuration.base_url

(* The invocation took the cold-start path. *)
ColdStart ==
  /\ IsSome(first_get)
  /\ ~(IsSome(start_storage.next_uri)
       /\ FingerprintEqual(start_storage, configuration))

(* C4, as claimed: on the cold-start path the lastModified lower bound of  *)
(* the initial query is now minus the configured lookback days.            *)
C4_ColdStartFromLookback ==
  ColdStart => Val(first_get).since = now - configuration.days

(* C4, amended: on the cold-start path the lower bound is last_run_at when *)
(* the host has recorded a run, and now minus the lookback days otherwise. *)
C4_ColdStartFromLastRunOrLookback ==
  ColdStart =>
    Val(first_get).since =
      IF IsSome(last_run_at) THEN Val(last_run_at) ELSE now - configuration.days

C4_Witness ==
  /\ ColdStart
  /\ IsSome(start_storage.next_uri)
  /\ IsSome(last_run_at)

----------------------------------------------------------------------------
(* The number of indicators one well-formed raw record can yield: one per  *)
(* hash field of a File record, one per comma-separated segment of the     *)
(* text of any other record.                                               *)
CommaCount(text) == Cardinality({i \in 1..Len(text) : text[i] = ","})

RecordYield(r) ==
  IF ~IsSome(r.type) THEN 0
  ELSE IF Val(r.type) = "File"
    THEN (IF IsSome(r.md5) THEN 1 ELSE 0) + (IF IsSome(r.sha256) THEN 1 ELSE 0)
  ELSE IF IsSome(r.text) THEN CommaCount(Val(r.text)) + 1 ELSE 0

BacklogRecords ==
  UNION {SeqRange(PageData(backlog, p)) : p \in 1..backlog.n}

(* The largest yield of a record of the backlog. *)
MaxYield ==
  LET yields == {RecordYield(r) : r \in BacklogRecords} IN
    IF yields = {} THEN 0
    ELSE CHOOSE k \in yields : \A y \in yields : y <= k

RECURSIVE RecordsOfPages(_)
RecordsOfPages(ps) ==
  IF ps = <<>> THEN 0
  ELSE Len(PageData(backlog, Head(ps))) + RecordsOfPages(Tail(ps))

(* C5, as claimed: with at most LIMIT records a page, the list one         *)
(* invocation returns has at most PAGE_LIMIT * LIMIT indicators.           *)
C5_AtMostPageLimitTimesPageSize ==
  Ended => Len(ret) <= PAGE_LIMIT * LIMIT

(* C5, amended: one invocation classifies at most PAGE_LIMIT * LIMIT raw   *)
(* records, and the list it returns has at most PAGE_LIMIT * LIMIT * K     *)
(* indicators, K being the largest number of indicators one record yields  *)
(* (its hash fields for a File record, its text segments otherwise).       *)
C5_AtMostPageLimitTimesPageSizeTimesYield ==
  /\ RecordsOfPages(fetched) <= PAGE_LIMIT * LIMIT
  /\ (indicator_list # <<>> \/ ret # <<>>) =>
       LET most == PAGE_LIMIT * LIMIT * MaxYield IN
         /\ Len(indicator_list) <= most
         /\ Ended => Len(ret) <= most

C5_Witness ==
  /\ pc = "returned"
  /\ Len(ret) > PAGE_LIMIT * LIMIT
  /\ Len(ret) = PAGE_LIMIT * LIMIT * MaxYield

(* C6: no invocation classifies more than PAGE_LIMIT pages; once it has    *)
(* classified PAGE_LIMIT pages that each carried data and a next           *)
(* reference it has returned, with no further GET, all the indicators of   *)
(* those pages, and the checkpoint holds the URL of the first page not     *)
(* fetched and the current configuration.                                  *)
C6_PageLimitTruncates ==
  /\ Len(fetched) <= PAGE_LIMIT
  /\ pc = "fetching" => page_count < PAGE_LIMIT /\ Len(fetched) = page_count
  /\ (Len(fetched) = PAGE_LIMIT /\ fetched[PAGE_LIMIT] < backlog.n) =>
       /\ pc = "returned"
       /\ terminal = "Truncated"
       /\ ret = IndicatorsOfPages(fetched)
       /\ Val(last_get).page = fetched[PAGE_LIMIT]
       /\ storage =
            Checkpoint(Some([base |-> <<>>, since |-> Val(first_get).since,
                             page |-> fetched[PAGE_LIMIT] + 1]),
                       configuration)

C6_Witness ==
  /\ pc = "returned"
  /\ terminal = "Truncated"
  /\ ret # <<>>
  /\ IsSome(start_storage.next_uri)

(* Every page of the backlog carries data whose records are well formed. *)
WellFormedBacklog ==
  \A p \in 1..backlog.n : PageKind(backlog, p) \in {"file", "url", "own"}

(* C7: an invocation that ends at a page with data and no next reference   *)
(* returns the indicators of every page it fetched and leaves a checkpoint *)
(* without cursor, holding the current configuration; started without      *)
(* cursor on a backlog of at most PAGE_LIMIT pages of data and met by no   *)
(* error, the invocation ends so, with the indicators of all the pages;    *)
(* an invocation that finds no cursor starts from page 1 of a new query.   *)
C7_BacklogWithinPageLimitIsDrained ==
  /\ (Ended /\ cause = "no_next") =>
       /\ pc = "returned"
       /\ terminal = "Done"
       /\ ConsecutiveFrom(Val(first_get).page, fetched)
       /\ fetched[Len(fetched)] = backlog.n
       /\ ret = IndicatorsOfPages(fetched)
       /\ storage = Checkpoint(None, configuration)
  /\ (/\ Ended
      /\ terminal # "Paused"
      /\ ~IsSome(start_storage.next_uri)
      /\ backlog.n <= PAGE_LIMIT
      /\ WellFormedBacklog
      /\ cause \notin {"transport", "http_error", "no_body", "body_status"}) =>
       /\ cause = "no_next"
       /\ ret = IndicatorsOfPages(AllPages)
  /\ (IsSome(first_get) /\ ~IsSome(start_storage.next_uri)) =>
       Val(first_get).page = 1

C7_Witness ==
  /\ pc = "returned"
  /\ terminal = "Done"
  /\ cause = "no_next"
  /\ ~IsSome(start_storage.next_uri)
  /\ backlog.n = PAGE_LIMIT
  /\ fetched = AllPages
  /\ ret # <<>>

FinalStatusNotOk ==
  Ended /\ IsSome(http_status) /\ Val(http_status) \notin {200, 201}

(* C8, as claimed: a final response whose status is neither 200 nor 201    *)
(* makes the invocation raise and leaves the checkpoint as it was.         *)
C8_NonOkStatusRaises ==
  FinalStatusNotOk => pc = "raised" /\ storage = start_storage

(* C8, amended: a final response with a status from 400 to 599 does not    *)
(* raise: the invocation returns the indicators accumulated so far and     *)
(* stores that page's URL with the current configuration; a final response *)
(* with any other status than 200 and 201 makes the invocation raise and   *)
(* leaves the checkpoint as it was.                                        *)
C8_NonOkStatusSuspendsOrRaises ==
  FinalStatusNotOk =>
    IF Val(http_status) >= 400 /\ Val(http_status) < 600
      THEN /\ pc = "returned"
           /\ ret = IndicatorsOfPages(fetched)
           /\ storage = Checkpoint(last_get, configuration)
      ELSE /\ pc = "raised"
           /\ storage = start_storage

C8_Witness ==
  /\ pc = "returned"
  /\ http_status = Some(404)
  /\ Len(fetched) >= 1
  /\ storage # start_storage

(* C9: a 200/201 response whose body status is not Success, on whichever   *)
(* page it comes, makes the invocation raise and leaves the checkpoint     *)
(* (cursor and fingerprint) as it was when the invocation started.         *)
C9_BodyStatusFailureRaises ==
  cause = "body_status" => pc = "raised" /\ storage = start_storage

C9_Witness ==
  /\ pc = "raised"
  /\ cause = "body_status"
  /\ Len(fetched) >= 1
  /\ IsSome(start_storage.next_uri)

----------------------------------------------------------------------------
(* The record lists the provenance tag among its tags. *)
CarriesProvenanceTag(r) ==
  /\ IsSome(r.tags)
  /\ \E i \in 1..Len(Val(r.tags)) : Val(r.tags)[i] = Some(TAG_NAME)

RECURSIVE WithoutProvenance(_)
WithoutProvenance(data) ==
  IF data = <<>> THEN <<>>
  ELSE (IF CarriesProvenanceTag(Head(data)) THEN <<>> ELSE <<Head(data)>>)
       \o WithoutProvenance(Tail(data))

(* C10: a record that carries the provenance tag contributes nothing to    *)
(* the output of make_indicators: the page gives what it gives with such   *)
(* records taken out, and nothing when every record carries the tag.       *)
C10_ProvenanceRecordsAreExcluded ==
  cl_pc = "done" =>
    /\ Val(cl_result) =
         make_indicators(WithoutProvenance(cl_data), <<>>, cl_configuration,
                         cl_store)
    /\ WithoutProvenance(cl_data) = <<>> =>
         Val(cl_result).out = <<>> /\ ~Val(cl_result).raised

C10_Witness ==
  /\ cl_pc = "done"
  /\ cl_configuration.enable_tagging = "Yes"
  /\ Len(cl_data) = 2
  /\ CarriesProvenanceTag(cl_data[2])
  /\ cl_data[2].type = Some("File")
  /\ IsSome(cl_data[2].md5)
  /\ cl_data[2].tags = Some(<<Some("t1"), Some(TAG_NAME)>>)
  /\ Val(cl_result).out = <<>>

----------------------------------------------------------------------------
(* A raw record is well formed: it names its kind, a File record's hashes  *)
(* are strings, a URL record has its text, and the rating, when present,   *)
(* is one of 0..5.                                                         *)
WellFormedRecord(r) ==
  /\ IsSome(r.type)
  /\ Val(r.type) \in {"File", "URL"}
  /\ Val(r.type) = "File" =>
       /\ IsSome(r.md5) => Val(r.md5) # <<"#">>
       /\ IsSome(r.sha256) => Val(r.sha256) # <<"#">>
  /\ Val(r.type) = "URL" => IsSome(r.text)
  /\ IsSome(r.rating) => Val(r.rating) \in 0..5

(* The <<value, type>> pairs a well-formed record is to yield, in order. *)
ExpectedOf(r) ==
  IF Val(r.type) = "File"
    THEN (IF IsSome(r.md5) THEN << <<Lower(Val(r.md5)), "md5">> >> ELSE <<>>)
         \o (IF IsSome(r.sha256) THEN << <<Lower(Val(r.sha256)), "sha256">> >>
              ELSE <<>>)
    ELSE [i \in 1..Len(Split(Val(r.text))) |-> <<Split(Val(r.text))[i], "url">>]

RECURSIVE ExpectedOfPage(_)
ExpectedOfPage(data) ==
  IF data = <<>> THEN <<>>
  ELSE ExpectedOf(Head(data)) \o ExpectedOfPage(Tail(data))

RECURSIVE YieldOfPage(_)
YieldOfPage(data) ==
  IF data = <<>> THEN 0 ELSE RecordYield(Head(data)) + YieldOfPage(Tail(data))

ValuesAndTypes(out) == [i \in 1..Len(out) |-> <<out[i].value, out[i].type>>]

(* C11: on a page whose records are well formed and free of the provenance *)
(* tag, make_indicators appends, record after record, one indicator per    *)
(* hash field present (md5, then sha256) of a File record, so 0, 1 or 2,   *)
(* and one indicator per comma-separated segment of a URL record's text.   *)
C11_OneIndicatorPerHashOrSegment ==
  (/\ cl_pc = "done"
   /\ \A i \in 1..Len(cl_data) :
        WellFormedRecord(cl_data[i]) /\ ~CarriesProvenanceTag(cl_data[i])) =>
    /\ ~Val(cl_result).raised
    /\ Len(Val(cl_result).out) = YieldOfPage(cl_data)
    /\ ValuesAndTypes(Val(cl_result).out) = ExpectedOfPage(cl_data)
    /\ \A i \in 1..Len(cl_data) :
         Val(cl_data[i].type) = "File" => RecordYield(cl_data[i]) \in 0..2

C11_Witness ==
  /\ cl_pc = "done"
  /\ Len(cl_data) = 2
  /\ cl_data[1].type = Some("File")
  /\ IsSome(cl_data[1].md5) /\ IsSome(cl_data[1].sha256)
  /\ IsSome(cl_data[1].tags) /\ ~CarriesProvenanceTag(cl_data[1])
  /\ cl_data[2].type = Some("URL")
  /\ Len(Val(cl_result).out) = 5
  /\ Val(cl_result).out[1].type = "md5"
  /\ Val(cl_result).out[2].type = "sha256"
  /\ Val(cl_result).out[5].type = "url"

(* The reputation a record with the given confidence is to get. *)
ExpectedReputation(confidence) ==
  IF ~IsSome(confidence) THEN 5
  ELSE IF Val(confidence) <= 10 THEN 1
  ELSE Val(confidence) \div 10

(* C12: the reputation of the indicators of a record is 5 when the record  *)
(* has no confidence, 1 when the confidence is at most 10 and the          *)
(* confidence div 10 above; for a confidence in 0..100 it is in 1..10.     *)
C12_ReputationFromConfidence ==
  (cl_pc = "done" /\ Len(cl_data) = 1) =>
    \A i \in 1..Len(Val(cl_result).out) :
      /\ Val(cl_result).out[i].reputation =
           ExpectedReputation(cl_data[1].confidence)
      /\ (IsSome(cl_data[1].confidence)
          /\ Val(cl_data[1].confidence) \in 0..100) =>
           Val(cl_result).out[i].reputation \in 1..10

C12_Witness ==
  /\ cl_pc = "done"
  /\ Len(cl_data) = 1
  /\ cl_data[1].confidence = Some(100)
  /\ Len(Val(cl_result).out) = 2
  /\ Val(cl_result).out[2].reputation = 10

(* The severity a record with the given rating is to get. *)
ExpectedSeverity(rating) ==
  IF ~IsSome(rating) THEN "Unknown"
  ELSE <<"Unknown", "Low", "Low", "Medium", "High", "Critical">>[Val(rating) + 1]

(* C13: the severity of the indicators of a record whose rating is 0, 1,   *)
(* 2, 3, 4 or 5 is Unknown, Low, Low, Medium, High or Critical, and        *)
(* Unknown for a record without rating.                                    *)
C13_SeverityFromRating ==
  (/\ cl_pc = "done"
   /\ Len(cl_data) = 1
   /\ IsSome(cl_data[1].rating) => Val(cl_data[1].rating) \in 0..5) =>
    \A i \in 1..Len(Val(cl_result).out) :
      Val(cl_result).out[i].severity = ExpectedSeverity(cl_data[1].rating)

C13_Witness ==
  /\ cl_pc = "done"
  /\ Len(cl_data) = 1
  /\ cl_data[1].rating = Some(2)
  /\ cl_data[1].type = Some("URL")
  /\ Len(Val(cl_result).out) = 2
  /\ Val(cl_result).out[2].severity = "Low"

----------------------------------------------------------------------------
(* Vocabulary of the push properties.                                      *)

(* The log entries of a request kind for the indicator at position i. *)
LogAt(req, i) ==
  {k \in 1..Len(push_log) : push_log[k].req = req /\ push_log[k].pos = i}

LogOf(req) == {k \in 1..Len(push_log) : push_log[k].req = req}

PushEnded == ps_pc \in {"returned", "raised"}

AnsweredAt(i, answers) ==
  \E k \in LogAt("POST", i) : push_log[k].answer \in answers

(* C14: an indicator whose create POST is answered already-exists gets     *)
(* exactly one update PUT, sent right after that POST to the indicator's   *)
(* value with the group get_group_id returned in append mode, and no       *)
(* second create POST; no other indicator gets a PUT; the updated counter  *)
(* is the number of PUTs answered Success.                                 *)
C14_AlreadyExistsIsUpdatedOnce ==
  /\ \A i \in 1..Len(push_indicators) :
       /\ Cardinality(LogAt("POST", i)) <= 1
       /\ AnsweredAt(i, {"exists"}) =>
            /\ Cardinality(LogAt("PUT", i)) = 1
            /\ \A k \in LogAt("PUT", i) :
                 /\ push_log[k].target = Upper(push_indicators[i].value)
                 /\ push_log[k].group = existing_group_id
                 /\ push_log[k].mode = "append"
                 /\ k - 1 \in LogAt("POST", i)
       /\ ~AnsweredAt(i, {"exists"}) => LogAt("PUT", i) = {}
  /\ already_exists =
       Cardinality({k \in LogOf("PUT") : push_log[k].answer = "success"})

C14_Witness ==
  /\ ps_pc = "returned"
  /\ push_result = Some(TRUE)
  /\ existing_group_id = Some(NewGroupId)
  /\ Len(push_indicators) = 2
  /\ AnsweredAt(1, {"exists"})
  /\ AnsweredAt(2, {"exists"})
  /\ Cardinality(LogOf("PUT")) = 2
  /\ already_exists = 1

NothingAfter(i) == \A k \in 1..Len(push_log) : push_log[k].pos <= i

(* C15, as claimed: a create POST answered with none of the four known     *)
(* answers makes push return a failed PushResult at once, with no request  *)
(* for a later indicator.                                                  *)
C15_UnrecognizedAnswerReturnsFailure ==
  \A i \in 1..Len(push_indicators) :
    AnsweredAt(i, {"unknown", "malformed"}) =>
      /\ ps_pc = "returned"
      /\ push_result = Some(FALSE)
      /\ NothingAfter(i)

(* C15, amended: a create POST answered with a message that is none of the *)
(* four known answers makes push return a failed PushResult at once; an    *)
(* answer without JSON body, status or message makes push raise at once;   *)
(* either way there is no update for that indicator and no request for a   *)
(* later one.                                                              *)
C15_UnrecognizedAnswerEndsRun ==
  \A i \in 1..Len(push_indicators) :
    /\ AnsweredAt(i, {"unknown"}) =>
         /\ ps_pc = "returned"
         /\ push_result = Some(FALSE)
         /\ LogAt("PUT", i) = {}
         /\ NothingAfter(i)
    /\ AnsweredAt(i, {"malformed"}) =>
         /\ ps_pc = "raised"
         /\ push_result = None
         /\ LogAt("PUT", i) = {}
         /\ NothingAfter(i)

C15_Witness ==
  /\ ps_pc = "returned"
  /\ push_result = Some(FALSE)
  /\ Len(push_indicators) = 2
  /\ AnsweredAt(1, {"unknown"})
  /\ ~TooLongUrl(push_indicators[2])
  /\ LogOf("POST") = {Len(push_log)}

(* Both runs were handed the action parameters as configured, the first    *)
(* succeeded, and the service answered every request from what it keeps.   *)
SecondRunOfSamePush ==
  /\ push_runs = 2
  /\ PushEnded
  /\ IsSome(first_run)
  /\ Val(first_run).ok
  /\ faithful
  /\ action_dict = configured_action

(* C16: after a second push of the same list to the same group the remote  *)
(* service holds the associations and groups the first run left, no record *)
(* was created twice, and every indicator the first run created was        *)
(* answered already-exists and updated in the second.                      *)
C16_SecondPushResolvesByUpdate ==
  SecondRunOfSamePush =>
    /\ remote_assoc = Val(first_run).assoc
    /\ remote_groups = Val(first_run).groups
    /\ Cardinality(SeqRange(created)) = Len(created)
    /\ \A i \in 1..Len(push_indicators) :
         RemoteKey(push_indicators[i].value) \in Val(first_run).created =>
           /\ AnsweredAt(i, {"exists"})
           /\ \E k \in LogAt("PUT", i) : push_log[k].answer = "success"

(* get_group_id yielded no id. *)
ResolutionFailed ==
  resolution \in {"create_failed", "create_raised", "listing_raised",
                  "key_raised"}

(* C17: when get_group_id yields no group id the push run ends as a failed *)
(* run and sends no create POST for any indicator.                         *)
C17_NoGroupIdEndsRun ==
  ResolutionFailed =>
    /\ ps_pc = "raised" \/ (ps_pc = "returned" /\ push_result = Some(FALSE))
    /\ LogOf("POST") = {}

----------------------------------------------------------------------------
(* C18: with is_pull_required other than "Yes", pull returns an empty list *)
(* without any GET and leaves the checkpoint as it was, and no invocation  *)
(* is ever fetching under such a configuration.                            *)
C18_PollingDisabledDoesNothing ==
  /\ configuration.is_pull_required # "Yes" => pc \notin {"fetching", "raised"}
  /\ (Ended /\ configuration.is_pull_required # "Yes") =>
       /\ pc = "returned"
       /\ terminal = "Paused"
       /\ ret = <<>>
       /\ first_get = None /\ last_get = None
       /\ storage = start_storage

C18_Witness ==
  /\ pc = "returned"
  /\ terminal = "Paused"
  /\ IsSome(storage.next_uri)
  /\ Val(storage.configuration_details).is_pull_required = "Yes"

(* An invocation has fetched at most PAGE_LIMIT pages and has sent at most *)
(* MAX_RETRY GETs for the page it is at.                                   *)
PullWithinBounds ==
  /\ Len(fetched) <= PAGE_LIMIT
  /\ page_count <= PAGE_LIMIT
  /\ retry_count < MAX_RETRY
  /\ Len(sleeps) <= MAX_RETRY
  /\ pc = "fetching" => (page_count < PAGE_LIMIT /\ Len(sleeps) = retry_count)

(* C19: whatever the remote service answers, an invocation stays within    *)
(* PAGE_LIMIT pages and MAX_RETRY GETs a page, and an invocation that is   *)
(* fetching comes to one of the terminals Done, Suspended, Truncated and   *)
(* Failed.                                                                 *)
C19_PullTerminates ==
  /\ []PullWithinBounds
  /\ (pc = "fetching") ~>
       (Ended /\ terminal \in {"Done", "Suspended", "Truncated", "Failed"})

C19_Witness ==
  /\ pc = "returned"
  /\ terminal = "Truncated"
  /\ Len(fetched) = PAGE_LIMIT
  /\ fetched[PAGE_LIMIT] < backlog.n
  /\ Len(sleeps) = MAX_RETRY - 1

(* C20: an invocation that ends at a Success answer with no next page to   *)
(* follow returns the indicators of every page it fetched.                 *)
C20_DoneReturnsAllFetched ==
  (pc = "returned" /\ terminal = "Done") => ret = IndicatorsOfPages(fetched)

----------------------------------------------------------------------------
(* C21: a GET answered 500 or 503 is sent at most MAX_RETRY times for a    *)
(* page, the engine waits 30, 60, ... seconds after the first, second, ... *)
(* attempt and only between two attempts, so at most MAX_RETRY - 1 times,  *)
(* and after the last attempt it goes on with the answer received.         *)
C21_WaitsBetweenAttemptsOnly ==
  /\ retry_count < MAX_RETRY
  /\ \A i \in 1..Len(sleeps) : sleeps[i] = 30 * i
  /\ Len(sleeps) <= MAX_RETRY - 1
  /\ (Ended /\ IsSome(http_status) /\ Val(http_status) \notin {500, 503}) =>
       Len(sleeps) < MAX_RETRY

(* The invocation ended on a page whose every GET was answered 500 or 503. *)
RetriesExhausted ==
  Ended /\ IsSome(http_status) /\ Val(http_status) \in {500, 503}

(* C22: when the MAX_RETRY GETs of a page are all answered 500 or 503 the  *)
(* invocation returns the indicators of the pages fetched before, and the  *)
(* checkpoint holds nothing but that page's URL as cursor and the current  *)
(* configuration as fingerprint.                                           *)
C22_ExhaustedRetriesSuspend ==
  RetriesExhausted =>
    /\ pc = "returned"
    /\ terminal = "Suspended"
    /\ Len(sleeps) = MAX_RETRY
    /\ Val(last_get).page = Val(first_get).page + Len(fetched)
    /\ storage = Checkpoint(last_get, configuration)
    /\ ret = IndicatorsOfPages(fetched)

C22_Witness ==
  /\ RetriesExhausted
  /\ http_status = Some(503)
  /\ Len(fetched) >= 1
  /\ ret # <<>>
  /\ IsSome(start_storage.next_uri)
  /\ storage.next_uri # start_storage.next_uri

(* The checkpoint is untouched while the invocation is fetching. *)
UntouchedWhileFetching ==
  pc = "fetching" => (writes = 0 /\ storage = start_storage)

(* C23, as claimed: every invocation of the pull loop writes the           *)
(* checkpoint exactly once, at its terminal step, cursor and fingerprint   *)
(* together.                                                               *)
C23_CheckpointWrittenExactlyOnce ==
  /\ UntouchedWhileFetching
  /\ (Ended /\ terminal # "Paused") =>
       /\ writes = 1
       /\ storage.configuration_details = Some(configuration)

(* C23, amended: the checkpoint is untouched while the invocation is       *)
(* fetching; an invocation that returns (Done, Suspended, Truncated) has   *)
(* written it exactly once, at its terminal step, the cursor of that       *)
(* terminal together with the current configuration; an invocation that    *)
(* raises has not written it at all.                                       *)
C23_CheckpointWrittenOnceUnlessRaised ==
  /\ UntouchedWhileFetching
  /\ (pc = "returned" /\ terminal # "Paused") =>
       /\ writes = 1
       /\ storage.configuration_details = Some(configuration)
       /\ terminal = "Done" => storage.next_uri = None
       /\ terminal = "Suspended" => storage.next_uri = last_get
       /\ terminal = "Truncated" =>
            /\ IsSome(storage.next_uri)
            /\ Val(storage.next_uri).page = fetched[Len(fetched)] + 1
  /\ pc = "raised" => (writes = 0 /\ storage = start_storage)

C23_Witness ==
  /\ pc = "returned"
  /\ terminal = "Truncated"
  /\ writes = 1
  /\ IsSome(start_storage.next_uri)
  /\ Val(start_storage.configuration_details) # configuration
  /\ storage.next_uri # start_storage.next_uri

----------------------------------------------------------------------------
(* The get_group_id call of this run was handed the group reference that   *)
(* the call of the first run had mutated when it created the group.        *)
CalledWithMutatedReference ==
  /\ push_runs >= 2
  /\ IsSome(first_run)
  /\ Val(first_run).how = "created"
  /\ configured_action.group_name = CREATE_GROUP
  /\ resolution = "given"

(* C24: a get_group_id call handed the reference mutated by the call that  *)
(* created the group returns the id that call returned, and sends no       *)
(* create-group POST.                                                      *)
C24_MutatedReferenceGivesSameId ==
  CalledWithMutatedReference =>
    /\ existing_group_id = Val(first_run).reference
    /\ LogOf("POST_GROUP") = {}

(* C25: when the name asked for is in the owner's name-to-id map no        *)
(* create-group POST is sent and the id mapped to the name is returned; a  *)
(* create-group POST is sent only when the name is not in the map, and it  *)
(* carries the provenance tag.                                             *)
C25_ExistingGroupIsReused ==
  /\ resolution \in {"found", "key_raised"} =>
       /\ LogOf("POST_GROUP") = {}
       /\ \E g \in remote_groups :
            /\ g.name = SpaceStrip(action_dict.new_group_name)
            /\ existing_group_id = Some(g.id)
  /\ \A k \in LogOf("POST_GROUP") :
       /\ resolution \in {"created", "create_failed", "create_raised"}
       /\ push_log[k].body.tags = Some(<<Some(TAG_NAME)>>)
       /\ resolution # "created" =>
            push_log[k].body.name \notin GroupNames(remote_groups)

(* A URL indicator too long for the remote service. *)
LongUrl(indicator) ==
  indicator.type = "url" /\ Len(indicator.value) > URL_MAX_LENGTH

(* C26: a URL indicator longer than the limit causes no request, is        *)
(* counted invalid and does not stop the run: the loop is at the next      *)
(* indicator, or has returned success when there is none.                  *)
C26_LongUrlIsSkipped ==
  /\ \A i \in 1..Len(push_indicators) :
       LongUrl(push_indicators[i]) =>
         /\ \A k \in 1..Len(push_log) : push_log[k].pos # i
         /\ (ps_idx = i + 1 /\ \A k \in 1..Len(push_log) : push_log[k].pos <= i) =>
              \/ ps_pc = "posting"
              \/ ps_idx > Len(push_indicators) /\ push_result = Some(TRUE)
  /\ invalid_ioc =
       Cardinality({i \in 1..Len(push_indicators) :
                      i < ps_idx /\ LongUrl(push_indicators[i])})
       + Cardinality({k \in LogOf("POST") :
                        push_log[k].answer \in {"invalid", "excluded"}})

C26_Witness ==
  /\ ps_pc = "returned"
  /\ push_result = Some(TRUE)
  /\ Len(push_indicators) = 2
  /\ LongUrl(push_indicators[1])
  /\ push_indicators[2].type = "url"
  /\ Len(push_indicators[2].value) = URL_MAX_LENGTH
  /\ AnsweredAt(2, {"created"})
  /\ invalid_ioc = 1

PutAnsweredAt(i, answers) ==
  \E k \in LogAt("PUT", i) : push_log[k].answer \in answers

KnownAnswers == {"created", "exists", "invalid", "excluded"}

EveryCreateAnswerKnown ==
  /\ PushEnded
  /\ ~ResolutionRaised(resolution)
  /\ \A k \in LogOf("POST") : push_log[k].answer \in KnownAnswers

LastRecordClassified ==
  LET last == cl_data[Len(cl_data)]
      want == ExpectedOf(last)
      out == ValuesAndTypes(Val(cl_result).out) IN
  (WellFormedRecord(last) /\ ~CarriesProvenanceTag(last)) =>
    /\ Len(out) >= Len(want)
    /\ SubSeq(out, Len(out) - Len(want) + 1, Len(out)) = want

(* C28: a failure on a field of one raw record (a malformed value, a       *)
(* missing type or text field, a rating outside 0..5) never leaves         *)
(* make_indicators: the call returns and the records after the failing one *)
(* are still classified.                                                   *)
C28_RecordFailureNeverPropagates ==
  cl_pc = "done" => ~Val(cl_result).raised /\ LastRecordClassified

NoNameTwice(names) ==
  \A i, j \in 1..Len(names) : names[i] = names[j] => i = j

(* C29: the tag list of an indicator produced by make_indicators holds no  *)
(* tag name twice, even when the raw record lists a name more than once.   *)
C29_NoTagNameTwice ==
  cl_pc = "done" =>
    \A i \in 1..Len(Val(cl_result).out) : NoNameTwice(Val(cl_result).out[i].tags)

(* The tag names of the page's first record, the candidates of the call. *)
CandidateNames ==
  IF IsSome(cl_data[1].tags) THEN TagInfoNames(Val(cl_data[1].tags)) ELSE <<>>

(* Creating the name in the tag store cl_store fails: the name is not      *)
(* there yet and the store refuses it.                                     *)
CreationFails(name) ==
  TagStrip(name) \notin cl_store /\ TagStrip(name) \in TooLongTags

CreationSucceedsOrNotNeeded(name) == ~CreationFails(name)

TaggingEnabled == cl_configuration.enable_tagging = "Yes"

AcceptedNames ==
  IF TaggingEnabled
    THEN SelectSeq(CandidateNames, CreationSucceedsOrNotNeeded) ELSE <<>>

(* C30: _create_tags returns no accepted and no skipped name when tagging  *)
(* is disabled; when it is enabled every candidate is in exactly one of    *)
(* the two lists, the skipped names are those whose creation in the tag    *)
(* store failed, a name already in the store is accepted and the store     *)
(* only gains the accepted names; the indicators of one record all carry   *)
(* exactly the accepted names.                                             *)
C30_CreateTagsSplitsCandidates ==
  /\ cl_pc = "tagged" =>
       LET res == Val(cl_tags) IN
       /\ ~TaggingEnabled =>
            res.tags = <<>> /\ res.skipped = <<>> /\ res.store = cl_store
       /\ TaggingEnabled =>
            /\ Len(res.tags) + Len(res.skipped) = Len(CandidateNames)
            /\ res.skipped = SelectSeq(CandidateNames, CreationFails)
            /\ res.tags = AcceptedNames
            /\ \A i \in 1..Len(CandidateNames) :
                 TagStrip(CandidateNames[i]) \in cl_store =>
                   CandidateNames[i] \in SeqRange(res.tags)
            /\ res.store =
                 cl_store \cup {TagStrip(n) : n \in SeqRange(AcceptedNames)}
  /\ (cl_pc = "done" /\ Len(cl_data) = 1 /\ ~CarriesProvenanceTag(cl_data[1])) =>
       /\ \A i \in 1..Len(Val(cl_result).out) :
            Val(cl_result).out[i].tags = AcceptedNames
       /\ TaggingEnabled =>
            Val(cl_result).skipped =
              SeqRange(SelectSeq(CandidateNames, CreationFails))

C30_Witness ==
  /\ cl_pc = "tagged"
  /\ TaggingEnabled
  /\ cl_store = {"t1"}
  /\ CandidateNames = <<" t1", "toolong">>
  /\ Val(cl_tags).tags = <<" t1">>
  /\ Val(cl_tags).skipped = <<"toolong">>
  /\ Val(cl_tags).store = {"t1"}

(* A step that writes the checkpoint and leaves a cursor in it. *)
CursorWritten ==
  storage' # storage /\ IsSome(storage'.next_uri)

(* C31: whenever the stored checkpoint holds a cursor it also holds a      *)
(* fingerprint, and every step that writes a checkpoint with a cursor      *)
(* stores, as fingerprint, the configuration of the invocation taking the  *)
(* step; the configuration is not edited while an invocation runs, so a    *)
(* cursor never lies next to the fingerprint of another configuration.     *)
C31_CursorComesWithItsFingerprint ==
  [][/\ IsSome(storage'.next_uri) => IsSome(storage'.configuration_details)
     /\ CursorWritten =>
          /\ storage'.configuration_details = Some(configuration)
          /\ configuration' = configuration
          /\ pc = "fetching"
     /\ configuration' # configuration => pc = "idle" /\ storage' = storage]_vars

C31_Witness ==
  /\ pc = "returned"
  /\ terminal = "Suspended"
  /\ config_changes > 0
  /\ IsSome(start_storage.next_uri)
  /\ Val(start_storage.configuration_details) # configuration
  /\ IsSome(storage.next_uri)
  /\ storage.configuration_details = Some(configuration)

(* C32: every indicator record that push creates on the remote service     *)
(* carries the provenance tag, and a later pull invocation that is served  *)
(* the records created so far, tags kept, returns no indicator for them.   *)
C32_PushedRecordsAreNeverPulled ==
  /\ \A r \in remote_inds :
       /\ IsSome(r.body.tags)
       /\ TAG_NAME \in SeqRange(TagInfoNames(Val(r.body.tags)))
  /\ cl_pc = "done" =>
       /\ Val(cl_result).out = <<>>
       /\ ~Val(cl_result).raised

C32_Witness ==
  /\ cl_pc = "done"
  /\ Len(cl_data) = 2
  /\ \E i \in 1..2 : cl_data[i].type = Some("url")
  /\ \E i \in 1..2 : cl_data[i].type = Some("File")
  /\ cl_configuration.enable_tagging = "Yes"
  /\ Val(cl_result).out = <<>>

(* C33: the mappings of push and pull round-trip: read back by             *)
(* make_indicators, the rating push sends for a severity s gives s again,  *)
(* and the confidence r * 10 push sends for a reputation r in 1..10 gives  *)
(* r again.                                                                *)
C33_SeverityAndReputationRoundTrip ==
  (cl_pc = "done" /\ IsSome(cl_pushed)) =>
    /\ cl_data[1].rating = Some(SEVERITY_TO_RATING(Val(cl_pushed).severity))
    /\ cl_data[1].confidence = Some(Val(cl_pushed).reputation * 10)
    /\ Len(Val(cl_result).out) = 1
    /\ Val(cl_result).out[1].severity = Val(cl_pushed).severity
    /\ Val(cl_result).out[1].reputation = Val(cl_pushed).reputation

C33_Witness ==
  /\ cl_pc = "done"
  /\ IsSome(cl_pushed)
  /\ Val(cl_pushed).severity = "Medium"
  /\ Val(cl_pushed).reputation = 1
  /\ cl_data[1].rating = Some(3)
  /\ cl_data[1].confidence = Some(10)
  /\ Val(cl_result).out[1].severity = "Medium"
  /\ Val(cl_result).out[1].reputation = 1

====
